---- MODULE Spec2Model ----
(***************************************************************************)
(* A model of dune_client.client.DuneClient: the request/response          *)
(* operations (execute, get_status, get_result, get_result_csv,            *)
(* get_latest_result, cancel_execution) as functions of the HTTP response  *)
(* they receive, and the execute / poll / fetch loop of refresh,           *)
(* refresh_csv and refresh_into_dataframe as a state machine, one step per *)
(* blocking call (an HTTP request or a sleep).                             *)
(***************************************************************************)
EXTENDS Integers, Sequences, FiniteSets, TLC

VARIABLES
    callers,    \* the threads that may call refresh on the one client
    budget,     \* how many non-terminal statuses the service reports per call
    config,     \* the client's configuration (BASE_URL, token, timeout, performance)
    pc,         \* per caller: where its refresh call stands
    variant,    \* per caller: refresh | refresh_csv | refresh_into_dataframe
    ping_frequency, \* per caller: the ping_frequency argument
    job_id,     \* per caller: the local job_id of _refresh
    status,     \* per caller: the local status of _refresh
    log,        \* per caller: the requests and sleeps it has performed, in order
    err,        \* per caller: the exception its call ended with
    ret,        \* per caller: the value its call returned
    nextJob,    \* service: the next execution id it hands out
    served,     \* service: per job, the states it has reported for it
    last        \* the last direct call of a single operation

vars == <<callers, budget, config, pc, variant, ping_frequency, job_id, status,
          log, err, ret, nextJob, served, last>>

refreshVars == <<callers, budget, pc, variant, ping_frequency, job_id, status,
                 log, err, ret, nextJob, served>>

-----------------------------------------------------------------------------
(* Bounds *)

\* non-terminal statuses the service may report to one refresh call
MaxPolls == 3
\* the same, when two calls run concurrently
MaxConcPolls == 1

AllCallers == {1, 2}
Jobs == {1, 2}
NoJob == 0

-----------------------------------------------------------------------------
(* Values *)

States == {"PENDING", "EXECUTING", "COMPLETED", "FAILED", "CANCELLED", "EXPIRED"}

\* ExecutionState.terminal_states()
terminal_states == {"COMPLETED", "FAILED", "CANCELLED", "EXPIRED"}

NoData == [none |-> TRUE]

Exc(type, data, cls) == [type |-> type, data |-> data, cls |-> cls]

\* no exception raised (yet)
NoExc == Exc("none", NoData, "")

HTTPError == Exc("HTTPError", NoData, "")
ValueError == Exc("ValueError", NoData, "")
KeyError == Exc("KeyError", NoData, "")
ImportError == Exc("ImportError", NoData, "")
DuneError(response_json, cls) == Exc("DuneError", response_json, cls)
QueryFailed(st) == Exc("QueryFailed", st, "")

\* how a call ends; decoded records whether response.json() was invoked
Return(v, d) == [kind |-> "return", val |-> v, exc |-> NoData, decoded |-> d]
Raise(e, d) == [kind |-> "raise", val |-> NoData, exc |-> e, decoded |-> d]

\* an HTTP response: its status code and its content, which either decodes
\* as JSON (to the object data) or does not (raw bytes data)
Response(code, isjson, data) ==
    [status_code |-> code, content |-> [json |-> isjson, data |-> data]]

StatusCodes == {200, 304, 404, 500}

ErrorBody == [error |-> "msg"]

\* the bodies the service answers a refresh call's requests with
ExecuteBodies(j) == { [execution_id |-> j, state |-> "PENDING"], ErrorBody }

StatusBodies(j) == { [execution_id |-> j, state |-> s] : s \in States } \cup { ErrorBody }

ResultBodies(j) ==
    { [execution_id |-> j, state |-> "COMPLETED", result |-> "rows"], ErrorBody }

\* more bodies, each short of one field, for the direct calls
ShortBodies(j) ==
    { [state |-> "PENDING"], [execution_id |-> j],
      [execution_id |-> j, state |-> "COMPLETED"] }

CancelBodies == { [success |-> TRUE], [success |-> FALSE], ErrorBody }

\* bytes that are not JSON
Raw(text) == [bytes |-> text]

RawContents == { Raw("a,b") }

JsonResponses(bodies) ==
    { Response(c, TRUE, b) : c \in StatusCodes, b \in bodies }
        \cup { Response(c, FALSE, Raw("<html>")) : c \in StatusCodes }

CsvResponses ==
    { Response(c, FALSE, d) : c \in StatusCodes, d \in RawContents }
        \cup { Response(c, TRUE, ErrorBody) : c \in StatusCodes }

-----------------------------------------------------------------------------
(* The request/response operations, as functions of the HTTP response *)

\* requests.Response.raise_for_status raises HTTPError for 4xx and 5xx
raise_for_status(response) ==
    response.status_code >= 400 /\ response.status_code < 600

_handle_response(response) ==
    IF response.content.json
    THEN Return(response.content.data, TRUE)
    ELSE IF raise_for_status(response)
         THEN Raise(HTTPError, TRUE)
         ELSE Raise(ValueError, TRUE)

\* the fields X.from_dict reads from the response
Required(cls) ==
    CASE cls = "ExecutionResponse" -> {"execution_id", "state"}
      [] cls = "ExecutionStatusResponse" -> {"execution_id", "state"}
      [] cls = "ResultsResponse" -> {"execution_id", "state", "result"}

from_dict(cls, data) ==
    IF Required(cls) \subseteq DOMAIN data
    THEN Return([cls |-> cls, fields |-> [f \in Required(cls) |-> data[f]]], TRUE)
    ELSE Raise(KeyError, TRUE)

\* try: return X.from_dict(response_json)
\* except KeyError as err: raise DuneError(response_json, "X", err)
Typed(cls, r) ==
    IF r.kind = "raise"
    THEN r
    ELSE LET o == from_dict(cls, r.val)
         IN  IF o.kind = "raise" /\ o.exc = KeyError
             THEN Raise(DuneError(r.val, cls), TRUE)
             ELSE o

execute(response) == Typed("ExecutionResponse", _handle_response(response))

get_status(response) == Typed("ExecutionStatusResponse", _handle_response(response))

get_result(response) == Typed("ResultsResponse", _handle_response(response))

get_latest_result(response) == Typed("ResultsResponse", _handle_response(response))

get_result_csv_json(response) ==
    LET r == _handle_response(response)
    IN  IF r.kind = "raise" THEN r
        ELSE Return([cls |-> "ExecutionResultCSV", data |-> response.content], TRUE)

get_result_csv(response) ==
    IF raise_for_status(response)
    THEN Raise(HTTPError, FALSE)
    ELSE Return([cls |-> "ExecutionResultCSV", data |-> response.content], FALSE)

cancel_execution_nocatch(response) ==
    LET r == _handle_response(response)
    IN  IF r.kind = "raise" THEN r
        ELSE IF "success" \in DOMAIN r.val
             THEN Return([cls |-> "bool", value |-> r.val.success], TRUE)
             ELSE Raise(KeyError, TRUE)

cancel_execution(response) ==
    LET r == _handle_response(response)
    IN  IF r.kind = "raise" THEN r
        ELSE IF "success" \in DOMAIN r.val
             THEN Return([cls |-> "bool", value |-> r.val.success], TRUE)
             ELSE Raise(DuneError(r.val, "CancellationResponse"), TRUE)

-----------------------------------------------------------------------------
(* refresh, refresh_csv, refresh_into_dataframe *)

Variants == {"refresh", "refresh_csv", "refresh_into_dataframe"}

\* def _refresh(self, query, ping_frequency: int = 5, ...)
DefaultPingFrequency == 5

PingFrequencies == {1, DefaultPingFrequency}

NonTerminal == {"PENDING", "EXECUTING"}

Event(op, arg, out) == [op |-> op, arg |-> arg, out |-> out]

\* what the log keeps of a call's end: "ok", or the exception's type
OutTag(o) == IF o.kind = "return" THEN "ok" ELSE o.exc.type

\* what the log keeps of a get_status call: the state reported, or the exception's type
StatusTag(o) == IF o.kind = "return" THEN o.val.fields.state ELSE o.exc.type

NonTerminalSeen(c) ==
    Cardinality({ i \in 1..Len(log[c]) :
                    log[c][i].op = "get_status" /\ log[c][i].out \in NonTerminal })

\* while status.state not in ExecutionState.terminal_states():
LoopCondPendingOnly(state) == state = "PENDING"

LoopCond(state) == state \notin terminal_states

\* if status.state == ExecutionState.FAILED:
IsFailedNever(state) == FALSE

IsFailedNotCompleted(state) == state # "COMPLETED"

IsFailed(state) == state = "FAILED"

\* where _refresh goes once get_status has returned a status
AfterStatusNoSleep(state) ==
    IF LoopCond(state) THEN "get_status"
    ELSE IF IsFailed(state) THEN "raised"
    ELSE "get_result"

AfterStatus(state) ==
    IF LoopCond(state) THEN "sleep"
    ELSE IF IsFailed(state) THEN "raised"
    ELSE "get_result"

\* no call in _refresh, refresh or refresh_csv is wrapped in try/except:
\* an exception raised by the operation op ends the whole call
AfterRaiseRetryStatus(op) == IF op = "get_status" THEN "sleep" ELSE "raised"

AfterRaise(op) == "raised"

\* the job id _refresh and refresh pass on: the local variable job_id
JobArgShared(c) == nextJob - 1

JobArg(c) == job_id[c]

\* time.sleep(ping_frequency)
SleepSeconds(c) == ping_frequency[c]

\* the result operation each variant ends with
ResultOpAlwaysJson(v) == "get_result"

ResultOp(v) == IF v = "refresh" THEN "get_result" ELSE "get_result_csv"

\* pandas.read_csv(data)
read_csv(data) == [cls |-> "DataFrame", data |-> data]

Append1(c, e) == [log EXCEPT ![c] = Append(@, e)]

\* a caller invokes refresh, refresh_csv or refresh_into_dataframe
Call(c) ==
    /\ c \in callers
    /\ pc[c] = "idle"
    /\ \E v \in Variants :
       \E pf \in (IF v = "refresh_into_dataframe"
                  THEN {DefaultPingFrequency} ELSE PingFrequencies) :
       \E has_pandas \in (IF v = "refresh_into_dataframe" THEN BOOLEAN ELSE {TRUE}) :
          /\ variant' = [variant EXCEPT ![c] = v]
          /\ ping_frequency' = [ping_frequency EXCEPT ![c] = pf]
          /\ IF has_pandas
             THEN pc' = [pc EXCEPT ![c] = "execute"] /\ err' = err
             ELSE /\ pc' = [pc EXCEPT ![c] = "raised"]
                  /\ err' = [err EXCEPT ![c] = ImportError]
    /\ UNCHANGED <<callers, budget, config, job_id, status, log, ret, nextJob,
                   served, last>>

\* job_id = self.execute(query=query, performance=performance).execution_id
Execute(c) ==
    /\ c \in callers
    /\ pc[c] = "execute"
    /\ nextJob \in Jobs
    /\ \E response \in JsonResponses(ExecuteBodies(nextJob)) :
          LET o == execute(response) IN
          /\ log' = Append1(c, Event("execute", NoJob, OutTag(o)))
          /\ IF o.kind = "return"
             THEN /\ job_id' = [job_id EXCEPT ![c] = o.val.fields.execution_id]
                  /\ pc' = [pc EXCEPT ![c] = "get_status"]
                  /\ err' = err
             ELSE /\ job_id' = job_id
                  /\ pc' = [pc EXCEPT ![c] = AfterRaise("execute")]
                  /\ err' = [err EXCEPT ![c] = o.exc]
    /\ nextJob' = nextJob + 1
    /\ UNCHANGED <<callers, budget, config, variant, ping_frequency, status, ret,
                   served, last>>

\* status = self.get_status(job_id), then the loop test and the FAILED test
GetStatus(c) ==
    /\ c \in callers
    /\ pc[c] = "get_status"
    /\ \E response \in JsonResponses(StatusBodies(JobArg(c))) :
          LET o == get_status(response) IN
          /\ (o.kind = "return" /\ o.val.fields.state \in NonTerminal)
                => NonTerminalSeen(c) < budget
          /\ log' = Append1(c, Event("get_status", JobArg(c), StatusTag(o)))
          /\ IF o.kind = "return"
             THEN /\ status' = [status EXCEPT ![c] = o.val]
                  /\ served' = [served EXCEPT ![JobArg(c)] =
                                    Append(@, o.val.fields.state)]
                  /\ pc' = [pc EXCEPT ![c] = AfterStatus(o.val.fields.state)]
                  /\ err' = [err EXCEPT ![c] =
                               IF AfterStatus(o.val.fields.state) = "raised"
                               THEN QueryFailed(o.val) ELSE @]
             ELSE /\ status' = status
                  /\ served' = served
                  /\ pc' = [pc EXCEPT ![c] = AfterRaise("get_status")]
                  /\ err' = [err EXCEPT ![c] = o.exc]
    /\ UNCHANGED <<callers, budget, config, variant, ping_frequency, job_id, ret,
                   nextJob, last>>

\* time.sleep(ping_frequency), then back to get_status
Sleep(c) ==
    /\ c \in callers
    /\ pc[c] = "sleep"
    /\ log' = Append1(c, Event("sleep", SleepSeconds(c), "slept"))
    /\ pc' = [pc EXCEPT ![c] = "get_status"]
    /\ UNCHANGED <<callers, budget, config, variant, ping_frequency, job_id,
                   status, err, ret, nextJob, served, last>>

\* refresh: return self.get_result(job_id)
GetResult(c) ==
    /\ c \in callers
    /\ pc[c] = "get_result"
    /\ ResultOp(variant[c]) = "get_result"
    /\ \E response \in JsonResponses(ResultBodies(JobArg(c))) :
          LET o == get_result(response) IN
          /\ log' = Append1(c, Event("get_result", JobArg(c), OutTag(o)))
          /\ IF o.kind = "return"
             THEN /\ ret' = [ret EXCEPT ![c] = o.val]
                  /\ pc' = [pc EXCEPT ![c] = "returned"]
                  /\ err' = err
             ELSE /\ ret' = ret
                  /\ pc' = [pc EXCEPT ![c] = AfterRaise("get_result")]
                  /\ err' = [err EXCEPT ![c] = o.exc]
    /\ UNCHANGED <<callers, budget, config, variant, ping_frequency, job_id,
                   status, nextJob, served, last>>

\* refresh_csv: return self.get_result_csv(job_id);
\* refresh_into_dataframe: pandas.read_csv(self.refresh_csv(...).data)
GetResultCsv(c) ==
    /\ c \in callers
    /\ pc[c] = "get_result"
    /\ ResultOp(variant[c]) = "get_result_csv"
    /\ \E response \in CsvResponses :
          LET o == get_result_csv(response) IN
          /\ log' = Append1(c, Event("get_result_csv", JobArg(c), OutTag(o)))
          /\ IF o.kind = "return"
             THEN /\ ret' = [ret EXCEPT ![c] =
                               IF variant[c] = "refresh_into_dataframe"
                               THEN read_csv(o.val.data) ELSE o.val]
                  /\ pc' = [pc EXCEPT ![c] = "returned"]
                  /\ err' = err
             ELSE /\ ret' = ret
                  /\ pc' = [pc EXCEPT ![c] = AfterRaise("get_result_csv")]
                  /\ err' = [err EXCEPT ![c] = o.exc]
    /\ UNCHANGED <<callers, budget, config, variant, ping_frequency, job_id,
                   status, nextJob, served, last>>

Step(c) == Execute(c) \/ GetStatus(c) \/ Sleep(c) \/ GetResult(c) \/ GetResultCsv(c)

-----------------------------------------------------------------------------
(* Direct calls of the single operations, each on any response *)

CallHandleResponse ==
    \E j \in Jobs : \E response \in JsonResponses(StatusBodies(j) \cup CancelBodies) :
        /\ last' = [op |-> "_handle_response", response |-> response, out |-> _handle_response(response)]
        /\ UNCHANGED <<config, refreshVars>>

CallExecute ==
    \E j \in Jobs : \E response \in JsonResponses(ExecuteBodies(j) \cup ShortBodies(j)) :
        /\ last' = [op |-> "execute", response |-> response, out |-> execute(response)]
        /\ UNCHANGED <<config, refreshVars>>

CallGetStatus ==
    \E j \in Jobs : \E response \in JsonResponses(StatusBodies(j) \cup ShortBodies(j)) :
        /\ last' = [op |-> "get_status", response |-> response, out |-> get_status(response)]
        /\ UNCHANGED <<config, refreshVars>>

CallGetResult ==
    \E j \in Jobs : \E response \in JsonResponses(ResultBodies(j) \cup ShortBodies(j)) :
        /\ last' = [op |-> "get_result", response |-> response, out |-> get_result(response)]
        /\ UNCHANGED <<config, refreshVars>>

CallGetLatestResult ==
    \E j \in Jobs : \E response \in JsonResponses(ResultBodies(j) \cup ShortBodies(j)) :
        /\ last' = [op |-> "get_latest_result", response |-> response, out |-> get_latest_result(response)]
        /\ UNCHANGED <<config, refreshVars>>

CallGetResultCsv ==
    \E response \in CsvResponses :
        /\ last' = [op |-> "get_result_csv", response |-> response, out |-> get_result_csv(response)]
        /\ UNCHANGED <<config, refreshVars>>

CallCancelExecution ==
    \E j \in Jobs : \E response \in JsonResponses(CancelBodies \cup ShortBodies(j)) :
        /\ last' = [op |-> "cancel_execution", response |-> response, out |-> cancel_execution(response)]
        /\ UNCHANGED <<config, refreshVars>>


-----------------------------------------------------------------------------
(* Specifications *)

Config == [BASE_URL |-> "https://api.dune.com", API_PATH |-> "/api/v1",
           token |-> "key", DEFAULT_TIMEOUT |-> 10, performance |-> "medium"]

NoCall == [op |-> "none", response |-> NoData, out |-> NoData]

InitWith(cs, b) ==
    /\ callers = cs
    /\ budget = b
    /\ config = Config
    /\ pc = [c \in AllCallers |-> "idle"]
    /\ variant = [c \in AllCallers |-> "none"]
    /\ ping_frequency = [c \in AllCallers |-> 0]
    /\ job_id = [c \in AllCallers |-> NoJob]
    /\ status = [c \in AllCallers |-> NoData]
    /\ log = [c \in AllCallers |-> <<>>]
    /\ err = [c \in AllCallers |-> NoExc]
    /\ ret = [c \in AllCallers |-> NoData]
    /\ nextJob = 1
    /\ served = [j \in Jobs |-> <<>>]
    /\ last = NoCall

\* one refresh call
Init == InitWith({1}, MaxPolls)

Next ==
    \/ \E c \in AllCallers : Call(c)
    \/ \E c \in AllCallers : Execute(c)
    \/ \E c \in AllCallers : GetStatus(c)
    \/ \E c \in AllCallers : Sleep(c)
    \/ \E c \in AllCallers : GetResult(c)
    \/ \E c \in AllCallers : GetResultCsv(c)

Spec == Init /\ [][Next]_vars

\* two concurrent refresh calls on the same client
ConcInit == InitWith(AllCallers, MaxConcPolls)

ConcSpec == ConcInit /\ [][Next]_vars

\* the calling thread keeps running: a request returns or raises (every request
\* has a timeout) and a sleep ends
LiveSpec == Init /\ [][Next]_vars /\ \A c \in AllCallers : WF_vars(Step(c))

NextCalls ==
    \/ CallHandleResponse
    \/ CallExecute
    \/ CallGetStatus
    \/ CallGetResult
    \/ CallGetLatestResult
    \/ CallGetResultCsv
    \/ CallCancelExecution

\* the single operations, called directly
SpecCalls == Init /\ [][NextCalls]_vars

-----------------------------------------------------------------------------
(* Properties of refresh *)

Finished(c) == pc[c] \in {"returned", "raised"}

ResultOps == {"get_result", "get_result_csv"}

\* the requests of caller c, sleeps left out
Requests(c) == SelectSeq(log[c], LAMBDA e : e.op # "sleep")

\* the get_status calls of caller c
StatusCalls(c) == SelectSeq(log[c], LAMBDA e : e.op = "get_status")

ResultCalls(c) == SelectSeq(log[c], LAMBDA e : e.op \in ResultOps)

\* the service's answers to c's get_status calls are n non-terminal states
\* followed by a terminal state of the set T
EndsIn(c, T) ==
    LET st == StatusCalls(c) IN
    /\ Len(st) >= 1
    /\ \A i \in 1..(Len(st) - 1) : st[i].out \in {"PENDING", "EXECUTING"}
    /\ st[Len(st)].out \in T

\* C1: when the statuses returned are n non-terminal states and then a first
\* terminal state other than FAILED, the finished call has made exactly one
\* execute call, then n+1 get_status calls, then one get_result call
\* (get_result_csv for refresh_csv), and no other request.
C1_ExactCalls ==
    \A c \in callers :
        (Finished(c) /\ EndsIn(c, {"COMPLETED", "CANCELLED", "EXPIRED"})) =>
            LET rq == Requests(c)
                n == Len(StatusCalls(c)) - 1
            IN  /\ Len(rq) = n + 3
                /\ rq[1].op = "execute"
                /\ \A i \in 2..(n + 2) : rq[i].op = "get_status"
                /\ rq[n + 3].op = (IF variant[c] = "refresh"
                                   THEN "get_result" ELSE "get_result_csv")

C1_Witness ==
    \E c \in callers :
        /\ pc[c] = "returned"
        /\ variant[c] = "refresh_csv"
        /\ Len(StatusCalls(c)) = 3
        /\ StatusCalls(c)[1].out = "PENDING"
        /\ StatusCalls(c)[2].out = "EXECUTING"
        /\ StatusCalls(c)[3].out = "COMPLETED"

\* C2: when the first terminal state returned is FAILED, the call has ended
\* raising QueryFailed, which carries that final status, and it has made no
\* get_result or get_result_csv call.
C2_FailedRaises ==
    \A c \in callers :
        EndsIn(c, {"FAILED"}) =>
            /\ pc[c] = "raised"
            /\ err[c].type = "QueryFailed"
            /\ err[c].data = status[c]
            /\ status[c].fields.state = "FAILED"
            /\ Len(ResultCalls(c)) = 0

C2_Witness ==
    \E c \in callers :
        /\ EndsIn(c, {"FAILED"})
        /\ Len(StatusCalls(c)) = 2
        /\ variant[c] = "refresh_into_dataframe"
        /\ pc[c] = "raised"

\* C3: when the first terminal state returned is CANCELLED or EXPIRED, the call
\* does not raise QueryFailed: it leaves the loop and makes exactly one result
\* call for its job, as for COMPLETED; and a call that saw a terminal state and
\* ended without a result call saw FAILED.
C3_CancelledFetches ==
    \A c \in callers :
        /\ EndsIn(c, {"CANCELLED", "EXPIRED"}) =>
              /\ err[c].type # "QueryFailed"
              /\ pc[c] = "get_result" => Len(ResultCalls(c)) = 0
              /\ pc[c] # "get_result" =>
                    /\ Finished(c)
                    /\ Len(ResultCalls(c)) = 1
                    /\ log[c][Len(log[c])].op \in ResultOps
                    /\ log[c][Len(log[c])].arg = job_id[c]
        /\ (Finished(c) /\ EndsIn(c, {"COMPLETED", "FAILED", "CANCELLED", "EXPIRED"})
               /\ Len(ResultCalls(c)) = 0) => EndsIn(c, {"FAILED"})

C3_Witness ==
    \E c \in callers :
        /\ EndsIn(c, {"EXPIRED"})
        /\ pc[c] = "returned"
        /\ variant[c] = "refresh"

\* C4: no result call before a get_status call has returned a terminal state;
\* the first get_status call comes after execute has returned; a non-terminal
\* status is followed by one sleep of ping_frequency seconds and then the next
\* get_status call, never by another get_status call directly; and no sleep
\* follows a terminal status.
C4_PollOrder ==
    \A c \in callers :
        \A i \in 1..Len(log[c]) :
            LET e == log[c][i] IN
            /\ e.op \in ResultOps =>
                  \E j \in 1..(i - 1) :
                      /\ log[c][j].op = "get_status"
                      /\ log[c][j].out \in {"COMPLETED", "FAILED", "CANCELLED", "EXPIRED"}
            /\ e.op = "get_status" =>
                  /\ i > 1
                  /\ log[c][1].op = "execute" /\ log[c][1].out = "ok"
                  /\ log[c][i - 1].op # "get_status"
                  /\ (i < Len(log[c]) /\ e.out \in {"PENDING", "EXECUTING"}) =>
                        log[c][i + 1].op = "sleep"
            /\ e.op = "sleep" =>
                  /\ e.arg = ping_frequency[c]
                  /\ i > 1
                  /\ log[c][i - 1].op = "get_status"
                  /\ log[c][i - 1].out \in {"PENDING", "EXECUTING"}
                  /\ i < Len(log[c]) => log[c][i + 1].op = "get_status"

C4_Witness ==
    \E c \in callers :
        /\ ping_frequency[c] = 1
        /\ Len(log[c]) = 6
        /\ log[c][2].op = "get_status"
        /\ log[c][3].op = "sleep"
        /\ log[c][4].op = "get_status"
        /\ log[c][5].op = "sleep"
        /\ log[c][6].op = "get_status"
        /\ log[c][6].out = "COMPLETED"

RequestErrors == {"HTTPError", "ValueError", "DuneError", "KeyError"}

\* some request of caller c raised
RequestFailed(c) == \E i \in 1..Len(log[c]) : log[c][i].out \in RequestErrors

\* some get_status call of caller c returned a terminal state
TerminalSeen(c) ==
    \E i \in 1..Len(log[c]) :
        /\ log[c][i].op = "get_status"
        /\ log[c][i].out \in {"COMPLETED", "FAILED", "CANCELLED", "EXPIRED"}

\* C7: refresh has no timeout ceiling: a call that has started, none of whose
\* requests failed and whose get_status calls have all returned non-terminal
\* states has neither returned nor raised, however many polls it has made; once a get_status call has
\* returned a terminal state the call eventually ends; and a call that ends
\* with no failed request ends with a result or with QueryFailed.
C7_NoCeiling ==
    /\ [](\A c \in AllCallers :
            (/\ Len(log[c]) >= 1
             /\ ~RequestFailed(c)
             /\ \A i \in 1..Len(log[c]) :
                   log[c][i].op = "get_status" => log[c][i].out \in {"PENDING", "EXECUTING"})
                => ~Finished(c))
    /\ [](\A c \in AllCallers :
            (Finished(c) /\ Len(log[c]) >= 1 /\ ~RequestFailed(c))
                => (pc[c] = "returned" \/ err[c].type = "QueryFailed"))
    /\ \A c \in AllCallers : TerminalSeen(c) ~> Finished(c)

C7_Witness ==
    \E c \in callers :
        /\ NonTerminalSeen(c) = MaxPolls
        /\ TerminalSeen(c)
        /\ pc[c] = "returned"

\* the response type an operation builds
ResponseClass(op) ==
    CASE op = "execute" -> "ExecutionResponse"
      [] op = "get_status" -> "ExecutionStatusResponse"
      [] op = "get_result" -> "ResultsResponse"
      [] op = "get_latest_result" -> "ResultsResponse"
      [] op = "cancel_execution" -> "CancellationResponse"
      [] OTHER -> ""

\* C8: a failed request is never retried: a request that raised is the last
\* entry of the call's log, the call has ended raising that error, and the
\* only operation a call repeats is get_status, after a get_status call that
\* returned a non-terminal status.
C8_NoRetry ==
    \A c \in callers :
        /\ \A i \in 1..Len(log[c]) :
              log[c][i].out \in RequestErrors =>
                  /\ i = Len(log[c])
                  /\ pc[c] = "raised"
                  /\ err[c].type = log[c][i].out
                  /\ err[c].type = "DuneError" => err[c].cls = ResponseClass(log[c][i].op)
        /\ \A i, j \in 1..Len(log[c]) :
              (i < j /\ log[c][i].op = log[c][j].op /\ log[c][i].op # "sleep") =>
                  /\ log[c][i].op = "get_status"
                  /\ log[c][i].out \in {"PENDING", "EXECUTING"}
        /\ pc[c] = "raised" =>
              \/ err[c].type = "QueryFailed"
              \/ err[c].type = "ImportError"
              \/ /\ Len(log[c]) >= 1
                 /\ log[c][Len(log[c])].out = err[c].type

C8_Witness ==
    \E c \in callers :
        /\ pc[c] = "raised"
        /\ Len(log[c]) = 4
        /\ log[c][4].op = "get_status"
        /\ log[c][4].out = "HTTPError"
        /\ err[c] = HTTPError

\* the states the service reported to caller c, in order
StatesSeen(c) ==
    LET st == SelectSeq(log[c], LAMBDA e : e.op = "get_status" /\ e.out \in States)
    IN  [i \in 1..Len(st) |-> st[i].out]

\* C10: under any interleaving of two refresh calls on one client, every
\* get_status and result request of a call carries the job id its own single
\* execute returned, the configuration is never modified, and the call's
\* outcome follows from the statuses reported for its own job alone.
C10_Isolation ==
    /\ config = Config
    /\ \A c \in callers :
          /\ Len(SelectSeq(log[c], LAMBDA e : e.op = "execute")) <= 1
          /\ \A i \in 1..Len(log[c]) :
                log[c][i].op \in {"get_status"} \cup ResultOps =>
                    /\ job_id[c] # NoJob
                    /\ log[c][i].arg = job_id[c]
          /\ job_id[c] # NoJob =>
                /\ \A i \in 1..Len(StatesSeen(c)) :
                      /\ i <= Len(served[job_id[c]])
                      /\ StatesSeen(c)[i] = served[job_id[c]][i]
                /\ Len(StatesSeen(c)) = Len(served[job_id[c]])
                /\ (err[c].type = "QueryFailed") <=>
                      (Len(served[job_id[c]]) >= 1
                         /\ served[job_id[c]][Len(served[job_id[c]])] = "FAILED")
                /\ pc[c] = "returned" =>
                      /\ Len(served[job_id[c]]) >= 1
                      /\ served[job_id[c]][Len(served[job_id[c]])]
                             \in {"COMPLETED", "CANCELLED", "EXPIRED"}
    /\ \A c, d \in callers :
          (c # d /\ job_id[c] # NoJob) => job_id[c] # job_id[d]

C10_Witness ==
    /\ pc[1] = "returned"
    /\ pc[2] = "raised"
    /\ err[2].type = "QueryFailed"
    /\ job_id[1] = 2
    /\ job_id[2] = 1
    /\ Len(served[1]) = 2
    /\ Len(served[2]) = 2

-----------------------------------------------------------------------------
(* Properties of the single operations *)

\* the fields each operation needs to build its typed result
FieldsNeeded(op) ==
    CASE op = "execute" -> {"execution_id", "state"}
      [] op = "get_status" -> {"execution_id", "state"}
      [] op = "get_result" -> {"execution_id", "state", "result"}
      [] op = "get_latest_result" -> {"execution_id", "state", "result"}
      [] op = "cancel_execution" -> {"success"}

TypedOps == {"execute", "get_status", "get_result", "get_latest_result",
             "cancel_execution"}

\* the last direct call got a JSON body that lacks a field its result needs
LacksField ==
    /\ last.op \in TypedOps
    /\ last.response.content.json
    /\ ~(FieldsNeeded(last.op) \subseteq DOMAIN last.response.content.data)

C6_Claimed ==
    last.op = "get_result_csv" =>
        /\ (~(last.response.status_code \in 200..299) /\ ~last.response.content.json) =>
              /\ last.out.kind = "raise"
              /\ last.out.exc = HTTPError
              /\ ~last.out.decoded
        /\ last.response.status_code \in 200..299 =>
              /\ last.out.kind = "return"
              /\ last.out.val.data = last.response.content
              /\ ~last.out.decoded

\* C6 as amended: get_result_csv on a 4xx or 5xx response, JSON body or not,
\* raises the HTTP-status error; on any other status code (2xx, and a 3xx such
\* as 304) it returns the response bytes unchanged; it never decodes JSON.
C6_Amended ==
    last.op = "get_result_csv" =>
        /\ ~last.out.decoded
        /\ last.response.status_code \in 400..599 =>
              /\ last.out.kind = "raise"
              /\ last.out.exc = HTTPError
              /\ last.out.val = NoData
        /\ ~(last.response.status_code \in 400..599) =>
              /\ last.out.kind = "return"
              /\ last.out.val.data = last.response.content

C6_Witness ==
    /\ last.op = "get_result_csv"
    /\ last.response.status_code = 404
    /\ ~last.response.content.json
    /\ last.out.kind = "raise"
    /\ last.out.exc = HTTPError

\* C9: _handle_response has two outcomes only: it returns the decoded JSON
\* body when the body is JSON-decodable, whatever the status code, and raises
\* the HTTP-status error when it is not; it never raises the ValueError.
C9_TwoOutcomes ==
    last.op = "_handle_response" =>
        /\ last.response.content.json =>
              last.out = Return(last.response.content.data, TRUE)
        /\ ~last.response.content.json =>
              (last.out.kind = "raise" /\ last.out.exc = HTTPError)
        /\ last.out.exc # ValueError

====
